---------------------------- MODULE Spec2Model ----------------------------
(***************************************************************************)
(* Model of the orchestration engine of ai-launch-pad:                     *)
(*   - BaseWorkflow.run / SequentialWorkflow.execute, checkpoints,         *)
(*     inline recovery, rollback and reset (specification Spec);           *)
(*   - RouterAgent.execute with execute_with_retry (specification          *)
(*     RouterSpec).                                                        *)
(* Texts are sequences of string tokens; "Error:" is the token a soft      *)
(* failure begins with.                                                    *)
(***************************************************************************)
EXTENDS Integers, Sequences, FiniteSets, TLC

\* ------------------------------------------------------------------ bounds
\* largest number of units a workflow is configured with
MaxAgents == 4
\* number of run() calls explored on one workflow instance
MaxRuns == 3
\* a max_steps value small enough for a configured list to exceed it
SmallMaxSteps == 2
\* longest subtask text, in words, given to placeholder resolution
MaxTextLen == 3
\* most prior results given to placeholder resolution
MaxResults == 2
\* most lines of a decomposition answer given to the parse
MaxLines == 3
\* most words of a selection answer given to its reading
MaxWords == 3
\* most units, and most run() calls, of a workflow whose units may answer
\* with an "Error:" text
MaxErrorTextAgents == 2
MaxErrorTextRuns == 2
\* max_retries of a router that is a unit of a workflow, and most run() calls
\* of that workflow
RouterUnitRetries == 1
MaxRouterUnitRuns == 1

\* ------------------------------------------------------- program constants
\* BaseWorkflow.__init__: max_steps: int = 20
DefaultMaxSteps == 20
\* SequentialWorkflow._save_checkpoint: "Keep only last 3 checkpoints"
MaxCheckpoints == 3

\* Optional[int] None of _failed_step
NoStep == 0 - 1

VARIABLES
  \* ---- SequentialWorkflow / BaseWorkflow fields
  agents,         \* len(self.agents): units are 1..agents, unit k runs at loop index k-1
  max_steps,      \* self.max_steps
  wfState,        \* self._state
  current_step,   \* self._current_step
  wfHistory,      \* self._execution_history
  checkpoints,    \* self._checkpoints
  failed_step,    \* self._failed_step (NoStep for None)
  \* ---- BaseAgent fields of every unit
  agentState,     \* agent._state
  agentHist,      \* agent._execution_history (the "state" of each entry)
  \* ---- the frame of the run() / execute() call in progress
  pc,             \* position in run(); "ready" initially and after reset(),
                  \* "returned" when run() has just returned
  task,           \* run()'s task argument
  context,        \* execute()'s context
  results,        \* execute()'s results
  current_task,   \* execute()'s current_task
  i,              \* execute()'s loop index
  start_step,     \* execute()'s start_step
  error,          \* the exception travelling to run()'s except clause
  retval,         \* what the last run() returned
  \* ---- bookkeeping of the exploration
  runs,           \* number of run() calls made
  invoked,        \* the unit invocations of the run in progress / last run, in
                  \* order: the unit, the task it was given, how the call ended
  \* ---- RouterAgent fields
  max_retries,    \* self.max_retries
  unitState,      \* _state of each unit of self.available_agents
  unitHist,       \* _execution_history of each of them (the "state" of each entry)
  \* ---- the frame of the RouterAgent.execute() call
  rpc,            \* position in RouterAgent.execute()
  subtasks,       \* execute()'s subtasks
  router_results, \* execute()'s results
  current_context,\* execute()'s current_context
  subtask_i,      \* execute()'s loop index i
  router_task,    \* execute()'s current_task
  selected_agent, \* execute()'s selected_agent (NoAgent for None)
  attempt,        \* execute_with_retry()'s attempt
  last_error,     \* execute_with_retry()'s last_error
  attempt_log,    \* what the unit did at each attempt of the call in progress
  retried,        \* the finished execute_with_retry() calls, in order: the unit's
                  \* outcome at each attempt, and whether the attempts ran out
  router_out,     \* how execute() ended: a returned text or a raise
  llm_response,   \* what the latest llm_client.generate_response call answered
  llm_calls       \* number of generate_response calls of this execute()

wfVars == <<agents, max_steps, wfState, current_step, wfHistory, checkpoints,
            failed_step, agentState, agentHist, pc, task, context, results,
            current_task, i, start_step, error, retval, runs, invoked>>

routerVars == <<max_retries, unitState, unitHist, rpc, subtasks, router_results,
                current_context, subtask_i, router_task, selected_agent, attempt,
                last_error, attempt_log, retried, router_out, llm_response,
                llm_calls>>

vars == <<wfVars, routerVars>>

\* ------------------------------------------------------------------- texts
ErrorPrefix == "Error:"

\* str.startswith("Error:")
StartsWithError(text) == Len(text) > 0 /\ text[1] = ErrorPrefix

\* context keys: f"{agent.name}_output" of unit k, and a caller-supplied key
OutputKey(k) == <<"output", k>>
UserKey == <<"user", 0>>

EmptyContext == [key \in {} |-> <<>>]

\* context[key] = value
SetKey(ctx, key, value) ==
  [k \in DOMAIN ctx \cup {key} |-> IF k = key THEN value ELSE ctx[k]]

\* what a caller may pass to run(task, context): context None (hence {}) or a dict
RunInputs ==
  { [task |-> <<"taskA">>, context |-> EmptyContext],
    [task |-> <<"taskB">>, context |-> SetKey(EmptyContext, UserKey, <<"u">>)] }

\* what one call of a unit's execute() + format_output() may do: return its
\* text or raise
Outcomes(k) ==
  { [kind |-> "return", text |-> <<"out", ToString(k)>>],
    [kind |-> "raise",  text |-> <<"boom", ToString(k)>>] }

\* ------------------------------------------------------------------- agent
\* mutant: the except branch of the unit's wrapper records a completed call
AgentStateAfterAlwaysCompleted(outcome) == "completed"

\* BaseAgent._execute_with_error_handling: the unit ends completed with one more
\* history entry on return, failed with one more entry on a raise
AgentStateAfter(outcome) ==
  IF outcome.kind = "return" THEN "completed" ELSE "failed"

AgentCall(k, outcome) ==
  /\ agentState' = [agentState EXCEPT ![k] = AgentStateAfter(outcome)]
  /\ agentHist' = [agentHist EXCEPT ![k] = Append(@, AgentStateAfter(outcome))]

\* mutant: the failed entry is left in the history
PopLastKeepsEntry(hist) == hist

\* list.pop() guarded by "if agent._execution_history"
PopLast(hist) == IF Len(hist) > 0 THEN SubSeq(hist, 1, Len(hist) - 1) ELSE hist

\* BaseAgent defines no attribute AgentState (the enum is a module-level name),
\* so agent.AgentState raises AttributeError
AgentHasAgentStateAttr == FALSE

\* ---------------------------------------------------------------- workflow
NoReturn == [status |-> "none", keys |-> {}, steps |-> 0, results |-> <<>>,
             final_output |-> <<>>, context |-> EmptyContext, error |-> <<>>,
             rollback |-> FALSE]

WorkflowInit ==
  /\ agents \in 0..MaxAgents
  /\ max_steps \in {SmallMaxSteps, DefaultMaxSteps}
  /\ wfState = "idle"
  /\ current_step = 0
  /\ wfHistory = <<>>
  /\ checkpoints = <<>>
  /\ failed_step = NoStep
  /\ agentState = [k \in 1..agents |-> "idle"]
  /\ agentHist = [k \in 1..agents |-> <<>>]
  /\ pc = "ready"
  /\ task = <<>>
  /\ context = EmptyContext
  /\ results = <<>>
  /\ current_task = <<>>
  /\ i = 0
  /\ start_step = 0
  /\ error = <<>>
  /\ retval = NoReturn
  /\ runs = 0
  /\ invoked = <<>>

\* execute()'s locals do not outlive the call
FrameGone ==
  /\ context' = EmptyContext
  /\ results' = <<>>
  /\ current_task' = <<>>
  /\ i' = 0
  /\ start_step' = 0

\* SequentialWorkflow.execute, lines 38-43: resume only with a marker and a checkpoint
Resuming == failed_step # NoStep /\ Len(checkpoints) > 0

StartStep == IF Resuming THEN failed_step ELSE 0

\* BaseWorkflow.run lines 89-98 and SequentialWorkflow.execute lines 31-53
RunBegin(t, c) ==
  /\ pc \in {"ready", "returned"}
  /\ runs < MaxRuns
  /\ runs' = runs + 1
  /\ wfState' = "running"
  /\ current_step' = 0
  /\ task' = t
  /\ invoked' = <<>>
  /\ retval' = NoReturn
  /\ IF agents = 0
       THEN /\ error' = <<"No agents configured for workflow">>
            /\ pc' = "except"
            /\ UNCHANGED <<context, results, current_task, i, start_step>>
       ELSE /\ start_step' = StartStep
            /\ context' = IF Resuming THEN checkpoints[Len(checkpoints)].context ELSE c
            /\ results' = IF StartStep > 0 /\ Len(checkpoints) > 0
                            THEN checkpoints[Len(checkpoints)].results
                            ELSE <<>>
            /\ current_task' = IF StartStep > 0 /\ Len(checkpoints) > 0
                                  /\ Len(checkpoints[Len(checkpoints)].results) > 0
                                 THEN LET r == checkpoints[Len(checkpoints)].results
                                      IN r[Len(r)].output
                                 ELSE t
            /\ i' = StartStep
            /\ pc' = "loop"
            /\ UNCHANGED error
  /\ UNCHANGED <<agents, max_steps, wfHistory, checkpoints, failed_step,
                 agentState, agentHist>>
  /\ UNCHANGED routerVars

\* mutant: the 0-based loop index taken as the step number
StepNumberZeroBased(idx) == idx

\* self._current_step = i + 1
StepNumber(idx) == idx + 1

\* mutant: the ceiling reached one step early
ExceedsMaxStepsAtCeiling(step) == step >= max_steps

\* mutant: the ceiling one step late
ExceedsMaxStepsOneLate(step) == step > max_steps + 1

\* if self._current_step > self.max_steps
ExceedsMaxSteps(step) == step > max_steps

\* SequentialWorkflow.execute lines 56-64: next loop iteration, step ceiling
StepBegin ==
  /\ pc = "loop"
  /\ i < agents
  /\ current_step' = StepNumber(i)
  /\ IF ExceedsMaxSteps(StepNumber(i))
       THEN /\ error' = <<"Exceeded maximum steps:", ToString(max_steps)>>
            /\ pc' = "except"
       ELSE /\ pc' = "call"
            /\ UNCHANGED error
  /\ UNCHANGED <<agents, max_steps, wfState, wfHistory, checkpoints, failed_step,
                 agentState, agentHist, task, context, results, current_task, i,
                 start_step, retval, runs, invoked>>
  /\ UNCHANGED routerVars

\* results.append({...}) of lines 75-80 and 99-105
StepRecord(k, input, output, step, recovered) ==
  [agent |-> k, input |-> input, output |-> output, step |-> step,
   recovered |-> recovered]

\* mutant: the newest checkpoint is the one dropped on overflow
SaveCheckpointEvictsNewest(cps, step, res, ctx) ==
  LET appended == Append(cps, [step |-> step, results |-> res, context |-> ctx])
  IN IF Len(appended) > MaxCheckpoints THEN SubSeq(appended, 1, MaxCheckpoints)
     ELSE appended

\* mutant: the eviction of the oldest checkpoint left out
SaveCheckpointNoEvict(cps, step, res, ctx) ==
  Append(cps, [step |-> step, results |-> res, context |-> ctx])

\* mutant: the live results list and context dict stored without .copy(), so
\* that the checkpoints already held show the live run's later entries
SaveCheckpointByReference(cps, step, res, ctx) ==
  LET shared   == [k \in 1..Len(cps) |->
                     [cps[k] EXCEPT !.results = res, !.context = ctx]]
      appended == Append(shared, [step |-> step, results |-> res, context |-> ctx])
  IN IF Len(appended) > MaxCheckpoints THEN Tail(appended) ELSE appended

\* SequentialWorkflow._save_checkpoint
SaveCheckpoint(cps, step, res, ctx) ==
  LET appended == Append(cps, [step |-> step, results |-> res, context |-> ctx])
  IN IF Len(appended) > MaxCheckpoints THEN Tail(appended) ELSE appended

\* mutant: the step number recorded as the marker
FailedIndexOneBased(idx) == idx + 1

\* self._failed_step = i
FailedIndex(idx) == idx

\* SequentialWorkflow.execute lines 70-94: the unit's first invocation in a step
StepInvokeUnit(outcome) ==
  /\ pc = "call"
  /\ AgentCall(i + 1, outcome)
  /\ invoked' = Append(invoked, [unit |-> i + 1, kind |-> outcome.kind,
                                 input |-> current_task])
  /\ IF outcome.kind = "return"
       THEN LET res == Append(results, StepRecord(i + 1, current_task, outcome.text,
                                                  current_step, FALSE))
                ctx == SetKey(context, OutputKey(i + 1), outcome.text)
            IN /\ results' = res
               /\ context' = ctx
               /\ checkpoints' = SaveCheckpoint(checkpoints, current_step, res, ctx)
               /\ current_task' = outcome.text
               /\ i' = i + 1
               /\ pc' = "loop"
               /\ UNCHANGED failed_step
       ELSE /\ failed_step' = FailedIndex(i)
            /\ pc' = "recover"
            /\ UNCHANGED <<results, context, checkpoints, current_task, i>>
  /\ UNCHANGED <<agents, max_steps, wfState, current_step, wfHistory, task,
                 start_step, error, retval, runs>>

StepInvoke(outcome) == StepInvokeUnit(outcome) /\ UNCHANGED routerVars

\* SequentialWorkflow._attempt_recovery (nothing in its body can raise: True)
AttemptRecovery ==
  /\ pc = "recover"
  /\ agentState' = [agentState EXCEPT ![i + 1] = "idle"]
  /\ agentHist' = [agentHist EXCEPT ![i + 1] = PopLast(@)]
  /\ pc' = "retry"
  /\ UNCHANGED <<agents, max_steps, wfState, current_step, wfHistory, checkpoints,
                 failed_step, task, context, results, current_task, i, start_step,
                 error, retval, runs, invoked>>
  /\ UNCHANGED routerVars

\* SequentialWorkflow.execute lines 96-111: the single retry of the failed step
StepRetryUnit(outcome) ==
  /\ pc = "retry"
  /\ AgentCall(i + 1, outcome)
  /\ invoked' = Append(invoked, [unit |-> i + 1, kind |-> outcome.kind,
                                 input |-> current_task])
  /\ IF outcome.kind = "return"
       THEN /\ results' = Append(results, StepRecord(i + 1, current_task, outcome.text,
                                                      current_step, TRUE))
            /\ context' = SetKey(context, OutputKey(i + 1), outcome.text)
            /\ current_task' = outcome.text
            /\ failed_step' = NoStep
            /\ i' = i + 1
            /\ pc' = "loop"
            /\ UNCHANGED error
       ELSE /\ error' = outcome.text
            /\ pc' = "except"
            /\ UNCHANGED <<results, context, current_task, failed_step, i>>
  /\ UNCHANGED <<agents, max_steps, wfState, current_step, wfHistory, checkpoints,
                 task, start_step, retval, runs>>

StepRetry(outcome) == StepRetryUnit(outcome) /\ UNCHANGED routerVars

\* mutant: the history keeps only the record of the latest run
RecordExecutionOverwrites(hist, status, step) == <<[status |-> status, step |-> step]>>

\* BaseWorkflow._record_execution
RecordExecution(hist, status, step) == Append(hist, [status |-> status, step |-> step])

\* mutant: a successful return that keeps the checkpoints and the marker
RunReturnKeepsCheckpoints ==
  /\ pc = "loop"
  /\ i >= agents
  /\ UNCHANGED <<failed_step, checkpoints>>
  /\ wfHistory' = RecordExecution(wfHistory, "completed", current_step)
  /\ wfState' = "completed"
  /\ retval' = [status |-> "success",
                keys |-> {"status", "result", "steps", "duration"},
                steps |-> current_step,
                results |-> results,
                final_output |-> IF Len(results) > 0 THEN results[Len(results)].output
                                 ELSE <<>>,
                context |-> context,
                error |-> <<>>,
                rollback |-> FALSE]
  /\ pc' = "returned"
  /\ FrameGone
  /\ UNCHANGED <<agents, max_steps, current_step, agentState, agentHist, task,
                 error, runs, invoked>>
  /\ UNCHANGED routerVars

\* SequentialWorkflow.execute lines 113-124 and BaseWorkflow.run lines 100-109
RunReturn ==
  /\ pc = "loop"
  /\ i >= agents
  /\ failed_step' = NoStep
  /\ checkpoints' = <<>>
  /\ wfHistory' = RecordExecution(wfHistory, "completed", current_step)
  /\ wfState' = "completed"
  /\ retval' = [status |-> "success",
                keys |-> {"status", "result", "steps", "duration"},
                steps |-> current_step,
                results |-> results,
                final_output |-> IF Len(results) > 0 THEN results[Len(results)].output
                                 ELSE <<>>,
                context |-> context,
                error |-> <<>>,
                rollback |-> FALSE]
  /\ pc' = "returned"
  /\ FrameGone
  /\ UNCHANGED <<agents, max_steps, current_step, agentState, agentHist, task,
                 error, runs, invoked>>
  /\ UNCHANGED routerVars

\* BaseWorkflow.run lines 111-116: the except clause up to the rollback
RunExcept ==
  /\ pc = "except"
  /\ wfHistory' = RecordExecution(wfHistory, "failed", current_step)
  /\ wfState' = "failed"
  /\ pc' = "rollback"
  /\ UNCHANGED <<agents, max_steps, current_step, checkpoints, failed_step,
                 agentState, agentHist, task, context, results, current_task, i,
                 start_step, error, retval, runs, invoked>>
  /\ UNCHANGED routerVars

\* BaseWorkflow._rollback raises inside its try at the first unit, where
\* agent.AgentState is looked up
RollbackRaises == agents > 0 /\ ~AgentHasAgentStateAttr

\* mutant: a rollback that marks the workflow rolled_back before it resets
\* the units, so that a raise while resetting leaves the state rolled_back
RollbackMarksStateFirst ==
  /\ pc = "rollback"
  /\ wfState' = "rolled_back"
  /\ IF RollbackRaises
       THEN UNCHANGED agentState
       ELSE agentState' = [k \in 1..agents |-> "idle"]
  /\ retval' = [status |-> "failed",
                keys |-> {"status", "error", "steps", "duration", "rollback"},
                steps |-> current_step,
                results |-> <<>>,
                final_output |-> <<>>,
                context |-> EmptyContext,
                error |-> error,
                rollback |-> ~RollbackRaises]
  /\ pc' = "returned"
  /\ FrameGone
  /\ error' = <<>>
  /\ UNCHANGED <<agents, max_steps, current_step, wfHistory, checkpoints,
                 failed_step, agentHist, task, runs, invoked>>
  /\ UNCHANGED routerVars

\* BaseWorkflow._rollback and BaseWorkflow.run lines 119-127
Rollback ==
  /\ pc = "rollback"
  /\ IF RollbackRaises
       THEN UNCHANGED <<wfState, agentState>>
       ELSE /\ agentState' = [k \in 1..agents |-> "idle"]
            /\ wfState' = "rolled_back"
  /\ retval' = [status |-> "failed",
                keys |-> {"status", "error", "steps", "duration", "rollback"},
                steps |-> current_step,
                results |-> <<>>,
                final_output |-> <<>>,
                context |-> EmptyContext,
                error |-> error,
                rollback |-> ~RollbackRaises]
  /\ pc' = "returned"
  /\ FrameGone
  /\ error' = <<>>
  /\ UNCHANGED <<agents, max_steps, current_step, wfHistory, checkpoints,
                 failed_step, agentHist, task, runs, invoked>>
  /\ UNCHANGED routerVars

\* mutant: reset() that leaves the checkpoints and the failed-step marker
ResetKeepsCheckpoints ==
  /\ pc \in {"ready", "returned"}
  /\ wfHistory' = <<>>
  /\ current_step' = 0
  /\ wfState' = "idle"
  /\ pc' = "ready"
  /\ UNCHANGED <<agents, max_steps, checkpoints, failed_step, agentState,
                 agentHist, task, context, results, current_task, i, start_step,
                 error, retval, runs, invoked>>
  /\ UNCHANGED routerVars

\* SequentialWorkflow.reset and BaseWorkflow.clear_history
Reset ==
  /\ pc \in {"ready", "returned"}
  /\ wfHistory' = <<>>
  /\ current_step' = 0
  /\ checkpoints' = <<>>
  /\ failed_step' = NoStep
  /\ wfState' = "idle"
  /\ pc' = "ready"
  /\ UNCHANGED <<agents, max_steps, agentState, agentHist, task, context,
                 results, current_task, i, start_step, error, retval, runs, invoked>>
  /\ UNCHANGED routerVars

WorkflowNext ==
  \/ \E in \in RunInputs : RunBegin(in.task, in.context)
  \/ StepBegin
  \/ \E o \in Outcomes(i + 1) : StepInvoke(o)
  \/ AttemptRecovery
  \/ \E o \in Outcomes(i + 1) : StepRetry(o)
  \/ RunReturn
  \/ RunExcept
  \/ Rollback
  \/ Reset

\* ------------------------------------------------------------------ router
\* RouterAgent.__init__: max_retries: int = 3
DefaultMaxRetries == 3

\* Optional[BaseAgent] None of select_agent
NoAgent == 0

\* the names of self.available_agents, in registration (dict) order
AgentNames == <<"Calc", "Writer">>

Units == 1..Len(AgentNames)

\* str.lower() on the words the responses are made of
Lower(tok) ==
  CASE tok \in {"Agent:", "AGENT:", "agent:"} -> "agent:"
    [] tok \in {"None", "NONE", "none"} -> "none"
    [] tok \in {"Calc", "CALC", "calc"} -> "calc"
    [] tok \in {"Writer", "WRITER", "writer"} -> "writer"
    [] OTHER -> tok

\* f"{{step_{n}_output}}"
PlaceholderToken(n) == "{step_" \o ToString(n) \o "_output}"

\* the digit strings \d+ of the placeholders a text may carry
Numerals == {"0", "1", "2", "5", "01"}

\* the text the pattern r'\{step_(\d+)_output\}' matches with digits d
PlaceholderText(d) == "{step_" \o d \o "_output}"

\* int(step_num_str)
IntOf(d) ==
  CASE d = "0" -> 0
    [] d = "1" -> 1
    [] d = "2" -> 2
    [] d = "5" -> 5
    [] d = "01" -> 1

\* re.findall(r'\{step_(\d+)_output\}', task) and int() of each match: the
\* numbers, in order of occurrence
RECURSIVE FindPlaceholders(_)
FindPlaceholders(text) ==
  IF text = <<>> THEN <<>>
  ELSE LET here == {d \in Numerals : Head(text) = PlaceholderText(d)}
       IN (IF here = {} THEN <<>> ELSE <<IntOf(CHOOSE d \in here : TRUE)>>)
            \o FindPlaceholders(Tail(text))

\* str.replace(old, new): every occurrence of the token
RECURSIVE ReplaceAll(_, _, _)
ReplaceAll(text, old, new) ==
  IF text = <<>> THEN <<>>
  ELSE (IF Head(text) = old THEN new ELSE <<Head(text)>>)
         \o ReplaceAll(Tail(text), old, new)

\* mutant: a placeholder whose number is out of range is blanked
RECURSIVE SubstituteEachBlanksUnknown(_, _, _)
SubstituteEachBlanksUnknown(text, nums, res) ==
  IF nums = <<>> THEN text
  ELSE LET n == Head(nums)
           next == IF 1 <= n /\ n <= Len(res)
                     THEN ReplaceAll(text, PlaceholderToken(n), res[n].result)
                     ELSE ReplaceAll(text, PlaceholderToken(n), <<>>)
       IN SubstituteEachBlanksUnknown(next, Tail(nums), res)

\* the for loop of _substitute_placeholders over the numbers found
RECURSIVE SubstituteEach(_, _, _)
SubstituteEach(text, nums, res) ==
  IF nums = <<>> THEN text
  ELSE LET n == Head(nums)
           next == IF 1 <= n /\ n <= Len(res)
                     THEN ReplaceAll(text, PlaceholderToken(n), res[n].result)
                     ELSE text
       IN SubstituteEach(next, Tail(nums), res)

\* RouterAgent._substitute_placeholders
SubstitutePlaceholders(text, res) == SubstituteEach(text, FindPlaceholders(text), res)

\* \d+\. : a word made of digits and a dot
IsNumberDot(tok) ==
  \/ \E n \in 0..99 : tok = ToString(n) \o "."
  \/ \E d \in Numerals : tok = d \o "."

\* white space at either end of a line
Blank == " "

\* line.strip()
RECURSIVE StripLeft(_)
StripLeft(line) ==
  IF line /= <<>> /\ Head(line) = Blank THEN StripLeft(Tail(line)) ELSE line

RECURSIVE StripRight(_)
StripRight(line) ==
  IF line /= <<>> /\ line[Len(line)] = Blank
    THEN StripRight(SubSeq(line, 1, Len(line) - 1))
    ELSE line

Strip(line) == StripRight(StripLeft(line))

\* mutant: the pattern without its leading number
MatchesAnyTwoWords(line) == Len(line) >= 2

\* re.match(r'^\d+\.\s+(.+)$', ...): a number-dot word, white space, then text
MatchesNumbered(line) == Len(line) >= 2 /\ IsNumberDot(line[1])

\* RouterAgent.decompose_task lines 193-202
RECURSIVE ParseNumberedList(_)
ParseNumberedList(lines) ==
  IF lines = <<>> THEN <<>>
  ELSE LET line == Strip(Head(lines))
       IN (IF MatchesNumbered(line) THEN <<Tail(line)>> ELSE <<>>)
            \o ParseNumberedList(Tail(lines))

\* 'agent: none' in content
SaysNoAgent(content) ==
  \E j \in 1..(Len(content) - 1) : content[j] = "agent:" /\ content[j + 1] = "none"

\* sub in word, for the words the responses are made of
HasSubstring(word, sub) ==
  word = sub \/ <<word, sub>> \in {<<"calculator", "calc">>, <<"rewriter", "writer">>}

\* agent_name.lower() in content
Mentions(content, k) ==
  \E j \in 1..Len(content) : HasSubstring(content[j], Lower(AgentNames[k]))

\* mutant: the names are looked for before the no-agent phrase
SelectAgentNamesFirst(response) ==
  LET content == [j \in 1..Len(response) |-> Lower(response[j])]
      named == {k \in Units : Mentions(content, k)}
  IN IF named /= {} THEN CHOOSE k \in named : \A other \in named : k <= other
     ELSE NoAgent

\* mutant: a response naming no unit falls back to the first unit
SelectAgentDefaultsToFirst(response) ==
  LET content == [j \in 1..Len(response) |-> Lower(response[j])]
      named == {k \in Units : Mentions(content, k)}
  IN IF SaysNoAgent(content) THEN NoAgent
     ELSE IF named = {} THEN 1
     ELSE CHOOSE k \in named : \A other \in named : k <= other

\* RouterAgent.select_agent lines 233-247
SelectAgent(response) ==
  LET content == [j \in 1..Len(response) |-> Lower(response[j])]
      named == {k \in Units : Mentions(content, k)}
  IN IF SaysNoAgent(content) THEN NoAgent
     ELSE IF named = {} THEN NoAgent
     ELSE CHOOSE k \in named : \A other \in named : k <= other

\* the summary of lines 90-96
RECURSIVE StepsSummary(_, _)
StepsSummary(res, j) ==
  IF j > Len(res) THEN <<>>
  ELSE <<"- Step", ToString(j), "executed by", AgentNames[res[j].agent], "Task:">>
         \o res[j].task \o <<"Result:">> \o res[j].result
         \o StepsSummary(res, j + 1)

SummaryKey == <<"summary", 0>>

SummaryText(res) ==
  <<"You are part of a multi-step workflow. Here is a summary of the previous steps:">>
    \o StepsSummary(res, 1)

\* dict.pop(key, None)
DropKey(ctx, key) == [k \in DOMAIN ctx \ {key} |-> ctx[k]]

\* mutant: a leftover summary is kept at the first step
ContextForStepKeepsLeftover(ctx, idx, res) ==
  IF idx > 0 /\ Len(res) > 0
    THEN SetKey(ctx, SummaryKey, SummaryText(res))
    ELSE ctx

\* RouterAgent.execute lines 88-100
ContextForStep(ctx, idx, res) ==
  IF idx > 0 /\ Len(res) > 0
    THEN SetKey(ctx, SummaryKey, SummaryText(res))
    ELSE DropKey(ctx, SummaryKey)

\* RouterAgent.aggregate_results
RECURSIVE AggregateSteps(_, _)
AggregateSteps(res, j) ==
  IF j > Len(res) THEN <<>>
  ELSE <<"### Step", ToString(j)>> \o res[j].task
         \o <<"**Agent**:", AgentNames[res[j].agent], "**Result**:">> \o res[j].result
         \o AggregateSteps(res, j + 1)

\* mutant: the empty case of the aggregate left out
AggregateResultsNoEmptyCase(res) ==
  <<"## Task Execution Summary">> \o AggregateSteps(res, 1)
    \o <<"**Total Steps Completed**:", ToString(Len(res))>>

\* RouterAgent.aggregate_results
AggregateResults(res) ==
  IF res = <<>> THEN <<"No results to aggregate">>
  ELSE <<"## Task Execution Summary">> \o AggregateSteps(res, 1)
         \o <<"**Total Steps Completed**:", ToString(Len(res))>>

\* what the text-generation call of decompose_task may answer: lines of words
DecompositionResponses ==
  { <<>>,
    << <<"Plan:">>, <<"none", "needed">> >>,
    << <<"1.", "Load", "data">> >>,
    << <<"1.", "Load", "data">>, <<"2.", "Analyze", PlaceholderToken(1)>>,
       <<"Notes:", "ignore">> >>,
    << <<"Steps">>, <<"1.", "Load">>, <<"2.", "Sum", PlaceholderToken(1)>>,
       <<"3.", "Report", PlaceholderToken(2), PlaceholderToken(5)>> >> }

\* what the text-generation call of select_agent may answer
SelectionResponses ==
  { <<"Agent:", "Calc">>,
    <<"AGENT:", "writer">>,
    <<"Writer", "or", "Calc">>,
    <<"Agent:", "None">>,
    <<"agent:", "NONE", "not", "Calc">>,
    <<"no", "idea">> }

\* either call may also raise; str(e) of what it raises
LlmError == <<"llm down">>

\* what one call of a unit may do under the router: return a text, return a
\* text that begins with "Error:", or raise
UnitOutcomes(k) ==
  { [kind |-> "return", text |-> <<"out", AgentNames[k]>>],
    [kind |-> "return", text |-> <<ErrorPrefix, "soft", AgentNames[k]>>],
    [kind |-> "raise",  text |-> <<"boom", AgentNames[k]>>] }

\* what a caller may pass to RouterAgent.execute as context (None becomes {})
RouterContexts ==
  { EmptyContext, SetKey(EmptyContext, SummaryKey, <<"stale summary">>) }

NoOutcome == [kind |-> "none", text |-> <<>>]

\* str(None) of a last_error never assigned
NoneText == <<"None">>

RouterAtRest ==
  /\ unitState = [k \in Units |-> "idle"]
  /\ unitHist = [k \in Units |-> <<>>]
  /\ rpc = "ready"
  /\ subtasks = <<>>
  /\ router_results = <<>>
  /\ current_context = EmptyContext
  /\ subtask_i = 0
  /\ router_task = <<>>
  /\ selected_agent = NoAgent
  /\ attempt = 0
  /\ last_error = NoneText
  /\ attempt_log = <<>>
  /\ retried = <<>>
  /\ router_out = NoOutcome
  /\ llm_response = NoOutcome
  /\ llm_calls = 0

\* a freshly constructed router, no execute() call made yet
RouterInit ==
  /\ max_retries \in 0..DefaultMaxRetries
  /\ RouterAtRest

\* RouterAgent.execute lines 59-70: decomposition; a raise of the call leaves
\* execute() through its except clause
RouterBegin(ctx, llm) ==
  /\ rpc = "ready"
  /\ llm_response' = llm
  /\ llm_calls' = llm_calls + 1
  /\ IF llm.kind = "raise"
       THEN /\ router_out' = [kind |-> "raise", text |-> LlmError]
            /\ rpc' = "done"
            /\ UNCHANGED <<subtasks, current_context>>
       ELSE /\ subtasks' = ParseNumberedList(llm.text)
            /\ current_context' = ctx
            /\ rpc' = "loop"
            /\ UNCHANGED router_out
  /\ UNCHANGED <<max_retries, unitState, unitHist, router_results, subtask_i,
                 router_task, selected_agent, attempt, last_error, attempt_log,
                 retried>>
  /\ UNCHANGED wfVars

\* RouterAgent.execute lines 72-100 and the entry of execute_with_retry:
\* placeholders, selection, context summary
RouterSelect(llm) ==
  /\ rpc = "loop"
  /\ subtask_i < Len(subtasks)
  /\ router_task' = SubstitutePlaceholders(subtasks[subtask_i + 1], router_results)
  /\ llm_response' = llm
  /\ llm_calls' = llm_calls + 1
  /\ IF llm.kind = "raise"
       THEN /\ router_out' = [kind |-> "raise", text |-> LlmError]
            /\ rpc' = "done"
            /\ UNCHANGED <<selected_agent, current_context, attempt, last_error,
                           attempt_log>>
       ELSE IF SelectAgent(llm.text) = NoAgent
         THEN /\ selected_agent' = NoAgent
              /\ rpc' = "aggregate"
              /\ UNCHANGED <<router_out, current_context, attempt, last_error,
                             attempt_log>>
         ELSE /\ selected_agent' = SelectAgent(llm.text)
              /\ current_context' = ContextForStep(current_context, subtask_i,
                                                   router_results)
              /\ attempt' = 0
              /\ last_error' = NoneText
              /\ attempt_log' = <<>>
              /\ rpc' = "attempt"
              /\ UNCHANGED router_out
  /\ UNCHANGED <<max_retries, unitState, unitHist, subtasks, router_results,
                 subtask_i, retried>>
  /\ UNCHANGED wfVars

\* results.append of lines 109-113
RouterRecord(text, k, result) == [task |-> text, agent |-> k, result |-> result]

\* mutant: the "not" of the startswith test left out
AttemptSucceededInverted(outcome) ==
  outcome.kind = "return" /\ StartsWithError(outcome.text)

\* an attempt of execute_with_retry ends the loop when the unit returned a text
\* that does not begin with "Error:"
AttemptSucceeded(outcome) == outcome.kind = "return" /\ ~StartsWithError(outcome.text)

\* mutant: range(self.max_retries - 1)
AttemptsRemainOneLess(att) == att < max_retries - 1

\* for attempt in range(self.max_retries)
AttemptsRemain(att) == att < max_retries

\* agent._execute_with_error_handling(task, context) of line 271: what the
\* unit was given at an attempt, and how the attempt ended
AttemptRecord(outcome) ==
  [kind |-> outcome.kind, text |-> outcome.text, task |-> router_task,
   context |-> current_context]

\* mutant: a failed attempt adds its error to the task of the next attempt
RetryAttemptWithFeedback(outcome) ==
  /\ rpc = "attempt"
  /\ AttemptsRemain(attempt)
  /\ attempt_log' = Append(attempt_log, AttemptRecord(outcome))
  /\ unitState' = [unitState EXCEPT ![selected_agent] = AgentStateAfter(outcome)]
  /\ unitHist' = [unitHist EXCEPT ![selected_agent] = Append(@, AgentStateAfter(outcome))]
  /\ IF AttemptSucceeded(outcome)
       THEN /\ router_results' = Append(router_results,
                                        RouterRecord(router_task, selected_agent,
                                                     outcome.text))
            /\ retried' = Append(retried, [outcomes |-> Append(attempt_log, AttemptRecord(outcome)),
                                           exhausted |-> FALSE])
            /\ subtask_i' = subtask_i + 1
            /\ rpc' = "loop"
            /\ UNCHANGED <<attempt, last_error, router_task>>
       ELSE /\ last_error' = outcome.text
            /\ attempt' = attempt + 1
            /\ router_task' = router_task \o outcome.text
            /\ UNCHANGED <<router_results, retried, subtask_i, rpc>>
  /\ UNCHANGED <<max_retries, subtasks, current_context, selected_agent,
                 router_out, llm_response, llm_calls>>
  /\ UNCHANGED wfVars

\* RouterAgent.execute_with_retry lines 268-285: one pass of the for loop
RetryAttempt(outcome) ==
  /\ rpc = "attempt"
  /\ AttemptsRemain(attempt)
  /\ attempt_log' = Append(attempt_log, AttemptRecord(outcome))
  /\ unitState' = [unitState EXCEPT ![selected_agent] = AgentStateAfter(outcome)]
  /\ unitHist' = [unitHist EXCEPT ![selected_agent] = Append(@, AgentStateAfter(outcome))]
  /\ IF AttemptSucceeded(outcome)
       THEN /\ router_results' = Append(router_results,
                                        RouterRecord(router_task, selected_agent,
                                                     outcome.text))
            /\ retried' = Append(retried, [outcomes |-> Append(attempt_log, AttemptRecord(outcome)),
                                           exhausted |-> FALSE])
            /\ subtask_i' = subtask_i + 1
            /\ rpc' = "loop"
            /\ UNCHANGED <<attempt, last_error>>
       ELSE /\ last_error' = outcome.text
            /\ attempt' = attempt + 1
            /\ UNCHANGED <<router_results, retried, subtask_i, rpc>>
  /\ UNCHANGED <<max_retries, subtasks, current_context, router_task,
                 selected_agent, router_out, llm_response, llm_calls>>
  /\ UNCHANGED wfVars

\* f"Failed after {self.max_retries} attempts. Last error: {last_error}"
FailedAfter(n, err) == <<"Failed after", ToString(n), "attempts. Last error:">> \o err

\* mutant: exhaustion raised instead of returned
RetryExhaustedRaises ==
  /\ rpc = "attempt"
  /\ ~AttemptsRemain(attempt)
  /\ router_out' = [kind |-> "raise", text |-> FailedAfter(max_retries, last_error)]
  /\ rpc' = "done"
  /\ UNCHANGED <<max_retries, unitState, unitHist, subtasks, router_results,
                 current_context, subtask_i, router_task, selected_agent, attempt,
                 last_error, attempt_log, retried, llm_response, llm_calls>>
  /\ UNCHANGED wfVars

\* mutant: an exhausted subtask is skipped without a recorded step
RetryExhaustedSkipsRecord ==
  /\ rpc = "attempt"
  /\ ~AttemptsRemain(attempt)
  /\ retried' = Append(retried, [outcomes |-> attempt_log, exhausted |-> TRUE])
  /\ subtask_i' = subtask_i + 1
  /\ rpc' = "loop"
  /\ UNCHANGED <<max_retries, unitState, unitHist, subtasks, router_results,
                 current_context, router_task, selected_agent, attempt, last_error,
                 attempt_log, router_out, llm_response, llm_calls>>
  /\ UNCHANGED wfVars

\* RouterAgent.execute_with_retry line 287 and execute lines 109-113
RetryExhausted ==
  /\ rpc = "attempt"
  /\ ~AttemptsRemain(attempt)
  /\ router_results' = Append(router_results,
                              RouterRecord(router_task, selected_agent,
                                           FailedAfter(max_retries, last_error)))
  /\ retried' = Append(retried, [outcomes |-> attempt_log, exhausted |-> TRUE])
  /\ subtask_i' = subtask_i + 1
  /\ rpc' = "loop"
  /\ UNCHANGED <<max_retries, unitState, unitHist, subtasks, current_context,
                 router_task, selected_agent, attempt, last_error, attempt_log,
                 router_out, llm_response, llm_calls>>
  /\ UNCHANGED wfVars

\* RouterAgent.execute lines 115-116: after the loop or its break
RouterReturn ==
  /\ \/ rpc = "aggregate"
     \/ rpc = "loop" /\ subtask_i >= Len(subtasks)
  /\ router_out' = [kind |-> "return", text |-> AggregateResults(router_results)]
  /\ rpc' = "done"
  /\ UNCHANGED <<max_retries, unitState, unitHist, subtasks, router_results,
                 current_context, subtask_i, router_task, selected_agent, attempt,
                 last_error, attempt_log, retried, llm_response, llm_calls>>
  /\ UNCHANGED wfVars

\* llm_client.generate_response: a response, or a raise
LlmAnswers(responses) ==
  {[kind |-> "return", text |-> r] : r \in responses}
    \cup {[kind |-> "raise", text |-> <<>>]}

RouterNext ==
  \/ \E ctx \in RouterContexts, llm \in LlmAnswers(DecompositionResponses) :
       RouterBegin(ctx, llm)
  \/ \E llm \in LlmAnswers(SelectionResponses) : RouterSelect(llm)
  \/ rpc = "attempt" /\ \E o \in UnitOutcomes(selected_agent) : RetryAttempt(o)
  \/ RetryExhausted
  \/ RouterReturn

\* ---------------------------------------------------------- specifications
\* a workflow as constructed, with units that are not routers
Init == WorkflowInit /\ max_retries = DefaultMaxRetries /\ RouterAtRest

Next == WorkflowNext

Spec == Init /\ [][Next]_vars

\* the router used on its own: no workflow around it
NoWorkflow ==
  /\ agents = 0 /\ max_steps = DefaultMaxSteps /\ wfState = "idle"
  /\ current_step = 0 /\ wfHistory = <<>> /\ checkpoints = <<>>
  /\ failed_step = NoStep
  /\ agentState = [k \in {} |-> "idle"] /\ agentHist = [k \in {} |-> <<>>]
  /\ pc = "ready" /\ task = <<>> /\ context = EmptyContext /\ results = <<>>
  /\ current_task = <<>> /\ i = 0 /\ start_step = 0 /\ error = <<>>
  /\ retval = NoReturn /\ runs = 0 /\ invoked = <<>>

\* a router as constructed, driven by one execute() call
RouterSpecInit == RouterInit /\ NoWorkflow

RouterSpec == RouterSpecInit /\ [][RouterNext]_vars

\* ---- RouterAgent._substitute_placeholders on its own
\* the words of a subtask text: a plain word and placeholders
PlaceholderWords == {"Use"} \cup {PlaceholderText(d) : d \in Numerals}

\* all texts of at most n words
SubtaskTexts(n) == UNION {[1..k -> PlaceholderWords] : k \in 0..n}

\* what earlier steps may have returned: unit output is free text, placeholder
\* spellings included
PriorResultTexts ==
  { <<"A">>, <<"B">>, <<PlaceholderToken(2)>>, <<"see", PlaceholderToken(1)>> }

\* the results list of execute() after at most n steps
PriorResults(n) ==
  UNION {[1..k -> {RouterRecord(<<"t">>, 1, r) : r \in PriorResultTexts}] : k \in 0..n}

\* execute() at line 76, for any subtask text and any results recorded so far
PlaceholderSpecInit ==
  /\ NoWorkflow
  /\ max_retries = DefaultMaxRetries
  /\ unitState = [k \in Units |-> "idle"]
  /\ unitHist = [k \in Units |-> <<>>]
  /\ rpc = "ready"
  /\ subtasks \in {<<text>> : text \in SubtaskTexts(MaxTextLen)}
  /\ router_results \in PriorResults(MaxResults)
  /\ current_context = EmptyContext
  /\ subtask_i = 0
  /\ router_task = <<>>
  /\ selected_agent = NoAgent
  /\ attempt = 0
  /\ last_error = NoneText
  /\ attempt_log = <<>>
  /\ retried = <<>>
  /\ router_out = NoOutcome
  /\ llm_response = NoOutcome
  /\ llm_calls = 0

\* current_task = self._substitute_placeholders(subtask, results)
ResolvePlaceholders ==
  /\ rpc = "ready"
  /\ router_task' = SubstitutePlaceholders(subtasks[subtask_i + 1], router_results)
  /\ rpc' = "resolved"
  /\ UNCHANGED <<max_retries, unitState, unitHist, subtasks, router_results,
                 current_context, subtask_i, selected_agent, attempt, last_error,
                 attempt_log, retried, router_out, llm_response, llm_calls>>
  /\ UNCHANGED wfVars

PlaceholderSpec == PlaceholderSpecInit /\ [][ResolvePlaceholders]_vars

\* ---- the parse of RouterAgent.decompose_task on its own
\* the lines a decomposition answer may be made of
ResponseLines ==
  { <<"1.", "Load", "data">>,
    <<Blank, "2.", "Analyze", Blank>>,
    <<"3.NoSpace">>,
    <<"4.">>,
    <<"4.", Blank>>,
    <<"-", "5.", "dash">>,
    <<"10.", "ten">>,
    <<"Notes">>,
    <<>>,
    <<"1)", "paren">> }

\* all answers of at most n lines
ManyLineResponses(n) == UNION {[1..k -> ResponseLines] : k \in 0..n}

\* decompose_task at line 188: the text-generation call has answered
DecomposeSpecInit ==
  /\ NoWorkflow
  /\ max_retries = DefaultMaxRetries
  /\ unitState = [k \in Units |-> "idle"]
  /\ unitHist = [k \in Units |-> <<>>]
  /\ rpc = "ready"
  /\ subtasks = <<>>
  /\ router_results = <<>>
  /\ current_context = EmptyContext
  /\ subtask_i = 0
  /\ router_task = <<>>
  /\ selected_agent = NoAgent
  /\ attempt = 0
  /\ last_error = NoneText
  /\ attempt_log = <<>>
  /\ retried = <<>>
  /\ router_out = NoOutcome
  /\ llm_response \in {[kind |-> "return", text |-> r] : r \in ManyLineResponses(MaxLines)}
  /\ llm_calls = 1

\* decompose_task lines 193-202
ParseDecomposition ==
  /\ rpc = "ready"
  /\ subtasks' = ParseNumberedList(llm_response.text)
  /\ rpc' = "parsed"
  /\ UNCHANGED <<max_retries, unitState, unitHist, router_results,
                 current_context, subtask_i, router_task, selected_agent, attempt,
                 last_error, attempt_log, retried, router_out, llm_response,
                 llm_calls>>
  /\ UNCHANGED wfVars

DecomposeSpec == DecomposeSpecInit /\ [][ParseDecomposition]_vars

\* ---- a fixed-sequence run whose units may answer with an "Error:" text
\* what one call of a unit may do, a returned text that begins with "Error:"
\* included
OutcomesWithErrorText(k) ==
  Outcomes(k) \cup {[kind |-> "return", text |-> <<ErrorPrefix, "soft", ToString(k)>>]}

ErrorTextInit ==
  /\ WorkflowInit
  /\ agents \in 1..MaxErrorTextAgents
  /\ max_steps = DefaultMaxSteps
  /\ max_retries = DefaultMaxRetries
  /\ RouterAtRest

ErrorTextNext ==
  \/ \E in \in RunInputs : runs < MaxErrorTextRuns /\ RunBegin(in.task, in.context)
  \/ StepBegin
  \/ \E o \in OutcomesWithErrorText(i + 1) : StepInvoke(o)
  \/ AttemptRecovery
  \/ \E o \in OutcomesWithErrorText(i + 1) : StepRetry(o)
  \/ RunReturn
  \/ RunExcept
  \/ Rollback
  \/ Reset

ErrorTextSpec == ErrorTextInit /\ [][ErrorTextNext]_vars

\* ---- a fixed-sequence workflow whose only unit is the router (main.py puts
\* the router first in the workflow's unit list)
\* the locals of RouterAgent.execute do not outlive the call; the router's
\* fields and its units stay
RouterFrameGone ==
  /\ rpc' = "ready"
  /\ subtasks' = <<>>
  /\ router_results' = <<>>
  /\ current_context' = EmptyContext
  /\ subtask_i' = 0
  /\ router_task' = <<>>
  /\ selected_agent' = NoAgent
  /\ attempt' = 0
  /\ last_error' = NoneText
  /\ attempt_log' = <<>>
  /\ retried' = <<>>
  /\ router_out' = NoOutcome
  /\ llm_response' = NoOutcome
  /\ llm_calls' = 0
  /\ UNCHANGED <<max_retries, unitState, unitHist>>

\* the workflow holds the router's execute() call of its step
InRouterCall == pc \in {"call", "retry"}

\* agent._execute_with_error_handling(current_task, context) of lines 72 and
\* 97 has ended: the step goes on with what the router returned or raised
RouterUnitInvoked == pc = "call" /\ rpc = "done" /\ StepInvokeUnit(router_out) /\ RouterFrameGone

RouterUnitRetried == pc = "retry" /\ rpc = "done" /\ StepRetryUnit(router_out) /\ RouterFrameGone

RouterUnitInit ==
  /\ WorkflowInit
  /\ agents = 1
  /\ max_steps = DefaultMaxSteps
  /\ max_retries = RouterUnitRetries
  /\ RouterAtRest

RouterUnitNext ==
  \/ \E in \in RunInputs : runs < MaxRouterUnitRuns /\ RunBegin(in.task, in.context)
  \/ StepBegin
  \/ InRouterCall /\ \E llm \in LlmAnswers(DecompositionResponses) : RouterBegin(context, llm)
  \/ InRouterCall /\ \E llm \in LlmAnswers(SelectionResponses) : RouterSelect(llm)
  \/ InRouterCall /\ rpc = "attempt" /\ \E o \in UnitOutcomes(selected_agent) : RetryAttempt(o)
  \/ InRouterCall /\ RetryExhausted
  \/ InRouterCall /\ RouterReturn
  \/ RouterUnitInvoked
  \/ AttemptRecovery
  \/ RouterUnitRetried
  \/ RunReturn
  \/ RunExcept
  \/ Rollback

RouterUnitSpec == RouterUnitInit /\ [][RouterUnitNext]_vars

\* ---- the reading of the answer in RouterAgent.select_agent on its own
\* the words a selection answer may be made of
SelectionWords ==
  {"Agent:", "AGENT:", "None", "none", "Calc", "WRITER", "writer", "calculator", "the"}

\* all answers of at most n words
ManyWordResponses(n) == UNION {[1..k -> SelectionWords] : k \in 0..n}

\* select_agent at line 231: the text-generation call has answered
SelectSpecInit ==
  /\ NoWorkflow
  /\ max_retries = DefaultMaxRetries
  /\ unitState = [k \in Units |-> "idle"]
  /\ unitHist = [k \in Units |-> <<>>]
  /\ rpc = "ready"
  /\ subtasks = <<>>
  /\ router_results = <<>>
  /\ current_context = EmptyContext
  /\ subtask_i = 0
  /\ router_task = <<>>
  /\ selected_agent = NoAgent
  /\ attempt = 0
  /\ last_error = NoneText
  /\ attempt_log = <<>>
  /\ retried = <<>>
  /\ router_out = NoOutcome
  /\ llm_response \in {[kind |-> "return", text |-> r] : r \in ManyWordResponses(MaxWords)}
  /\ llm_calls = 1

\* select_agent lines 233-247
ReadSelection ==
  /\ rpc = "ready"
  /\ selected_agent' = SelectAgent(llm_response.text)
  /\ rpc' = "selected"
  /\ UNCHANGED <<max_retries, unitState, unitHist, subtasks, router_results,
                 current_context, subtask_i, router_task, attempt, last_error,
                 attempt_log, retried, router_out, llm_response, llm_calls>>
  /\ UNCHANGED wfVars

SelectSpec == SelectSpecInit /\ [][ReadSelection]_vars

\* ------------------------------------------------------------------ claims
\* the run that has just returned invoked every unit once, in order, and each
\* invocation returned
AllSucceededFirstTime ==
  /\ Len(invoked) = agents
  /\ \A j \in 1..agents : invoked[j].unit = j /\ invoked[j].kind = "return"

\* C1: when N >= 1 configured units (N <= max_steps) all succeed on their first
\* invocation, run() returns status success with steps = N, N recorded results,
\* and the workflow state on return is completed.
C1_AllSucceed ==
  (pc = "returned" /\ agents >= 1 /\ agents <= max_steps /\ AllSucceededFirstTime)
    => /\ retval.status = "success"
       /\ retval.steps = agents
       /\ Len(retval.results) = agents
       /\ wfState = "completed"

C1_Witness ==
  /\ pc = "returned" /\ agents = MaxAgents /\ AllSucceededFirstTime
  /\ retval.status = "success" /\ retval.steps = MaxAgents

\* C2: whenever run() returns after an unrecovered fault, the workflow state is
\* rolled_back, whether or not the rollback succeeded.
C2_RolledBackOnReturn ==
  (pc = "returned" /\ retval.status = "failed") => wfState = "rolled_back"

\* C3: after a run that failed and went through rollback, every configured
\* unit is idle, the unit whose step raised and the units never invoked included.
C3_UnitsIdleAfterRollback ==
  (pc = "returned" /\ retval.status = "failed")
    => \A k \in 1..agents : agentState[k] = "idle"

\* C4: in every reachable state, across run() and reset() calls, the checkpoint
\* list holds at most 3 entries.
C4_CheckpointCap == Len(checkpoints) <= MaxCheckpoints

\* a fourth checkpoint has been appended and the oldest one evicted
C4_Witness ==
  /\ Len(checkpoints) = MaxCheckpoints
  /\ checkpoints[1].step = 2
  /\ checkpoints[MaxCheckpoints].step = 4

\* the first unit of a run is about to be invoked, and the run found a
\* failed-step marker and a checkpoint (neither has changed since run() began)
ResumedRunAtFirstCall ==
  pc = "call" /\ invoked = <<>> /\ failed_step # NoStep /\ Len(checkpoints) > 0

\* C5: a run that finds the failed-step marker set and a checkpoint restores
\* results and context from the most recent checkpoint, first invokes the unit
\* right after the last checkpointed step, and does not use the caller's task.
C5_ResumeFromCheckpoint ==
  ResumedRunAtFirstCall =>
    LET cp == checkpoints[Len(checkpoints)]
    IN /\ results = cp.results
       /\ context = cp.context
       /\ i + 1 = cp.step + 1
       /\ current_task = cp.results[Len(cp.results)].output

\* C6: the steps recorded in a successful result carry the indices 1..N in
\* order, without gap or duplicate, N being the number of configured units.
C6_GaplessSteps ==
  (pc = "returned" /\ retval.status = "success")
    => /\ Len(retval.results) = agents
       /\ \A j \in 1..Len(retval.results) : retval.results[j].step = j

\* reset() has just been called (or nothing has been called yet)
C7_AfterReset ==
  pc = "ready"
    => /\ wfHistory = <<>>
       /\ checkpoints = <<>>
       /\ failed_step = NoStep
       /\ current_step = 0
       /\ wfState = "idle"

\* the run() that follows reset() starts at the first unit with the caller's
\* task and context and no restored result
C7_RunAfterReset ==
  (pc = "ready" /\ pc' = "loop")
    => /\ i' = 0
       /\ start_step' = 0
       /\ results' = <<>>
       /\ current_task' = task'
       /\ [task |-> task', context |-> context'] \in RunInputs

\* C7: reset(), in any workflow state, empties the execution history and the
\* checkpoint list, clears the failed-step marker, zeroes the step counter and
\* sets the state to idle; the run() that follows starts at step 1, no resume.
C7_Reset == []C7_AfterReset /\ [][C7_RunAfterReset]_vars

\* reset() was called after a run that failed at a unit
C7_Witness ==
  /\ pc = "ready" /\ runs >= 1
  /\ \E k \in 1..agents : agentState[k] = "failed"

\* an attempt, as the retry contract counts it: it failed if it raised or
\* returned a text whose first word is "Error:"
AttemptFailed(outcome) ==
  \/ outcome.kind = "raise"
  \/ outcome.kind = "return" /\ Len(outcome.text) > 0 /\ outcome.text[1] = "Error:"

AllFailed(log) == \A m \in 1..Len(log) : AttemptFailed(log[m])

\* attempt k of the log is its first success
FirstSuccessAt(log, k) ==
  /\ k \in 1..Len(log)
  /\ ~AttemptFailed(log[k])
  /\ \A m \in 1..(k - 1) : AttemptFailed(log[m])

\* invocations of units, as their histories count them
RECURSIVE HistoryEntries(_)
HistoryEntries(k) == IF k = 0 THEN 0 ELSE Len(unitHist[k]) + HistoryEntries(k - 1)

RECURSIVE LoggedAttempts(_)
LoggedAttempts(j) ==
  IF j = 0 THEN 0 ELSE Len(retried[j].outcomes) + LoggedAttempts(j - 1)

\* C8: when a unit's attempts 1..k-1 fail and attempt k <= max_retries returns a
\* text not beginning with "Error:", execute_with_retry returns that text
\* unchanged and has invoked the unit exactly k times.
C8_FirstSuccessReturned ==
  /\ \A j \in 1..Len(retried) : \A k \in 1..Len(retried[j].outcomes) :
        FirstSuccessAt(retried[j].outcomes, k)
          => /\ k <= max_retries
             /\ Len(retried[j].outcomes) = k
             /\ ~retried[j].exhausted
             /\ router_results[j].result = retried[j].outcomes[k].text
  /\ rpc = "attempt" => AllFailed(attempt_log)
  /\ HistoryEntries(Len(AgentNames)) = LoggedAttempts(Len(retried))
        + (IF rpc = "attempt" THEN Len(attempt_log) ELSE 0)

\* two failures (a raise, then an "Error:" text), then a success on attempt 3
C8_Witness ==
  \E j \in 1..Len(retried) :
    /\ Len(retried[j].outcomes) = 3
    /\ retried[j].outcomes[1].kind = "raise"
    /\ retried[j].outcomes[2].kind = "return"
    /\ FirstSuccessAt(retried[j].outcomes, 3)
    /\ router_results[j].result = retried[j].outcomes[3].text

\* C9: when a unit fails on all max_retries attempts, execute_with_retry does
\* not raise: it has invoked the unit exactly max_retries times and returns a
\* string naming max_retries and the failure of the last attempt.
C9_ExhaustionReturnsString ==
  /\ \A j \in 1..Len(retried) :
        LET log == retried[j].outcomes
            result == router_results[j].result
        IN AllFailed(log)
             => /\ Len(log) = max_retries
                /\ retried[j].exhausted
                /\ Len(result) >= 3
                /\ result[1] = "Failed after"
                /\ result[2] = ToString(max_retries)
                /\ Len(log) > 0 => SubSeq(result, 4, Len(result)) = log[Len(log)].text
  /\ rpc = "attempt" => Len(attempt_log) <= max_retries
  /\ router_out.kind = "raise" => router_out.text = LlmError

\* three failed attempts of both kinds, the last one a raise
C9_Witness ==
  \E j \in 1..Len(retried) :
    /\ max_retries = 3
    /\ Len(retried[j].outcomes) = 3
    /\ AllFailed(retried[j].outcomes)
    /\ retried[j].outcomes[1].kind = "return"
    /\ retried[j].outcomes[3].kind = "raise"
    /\ router_results[j].result[1] = "Failed after"

\* the loop left by "break" on a selection of no unit
BrokeOnNoAgent == selected_agent = NoAgent /\ Len(router_results) < Len(subtasks)

\* C10: retry exhaustion on a subtask does not halt the router: the degraded
\* string is recorded as that step's result, the later subtasks are processed
\* in order, and execute() does not raise because of it.
C10_ExhaustionDoesNotHalt ==
  /\ Len(retried) = Len(router_results)
  /\ rpc \in {"loop", "attempt"} => subtask_i = Len(router_results)
  /\ \A j \in 1..Len(retried) :
        /\ retried[j].exhausted
              => /\ Len(router_results[j].result) >= 3
                 /\ router_results[j].result[1] = "Failed after"
        /\ router_results[j].task
              = SubstitutePlaceholders(subtasks[j], SubSeq(router_results, 1, j - 1))
  /\ router_out.kind = "raise" => router_out.text = LlmError
  /\ (rpc = "done" /\ router_out.kind = "return")
        => (Len(router_results) = Len(subtasks) \/ BrokeOnNoAgent)

\* the first of three subtasks ran out of attempts, the other two were still
\* processed and execute() returned
C10_Witness ==
  /\ rpc = "done" /\ router_out.kind = "return"
  /\ max_retries >= 1
  /\ Len(subtasks) = 3 /\ Len(router_results) = 3
  /\ retried[1].exhausted
  /\ ~retried[2].exhausted

\* the selector's answer holds "Agent: None" in some letter case
AnswersNoAgentPhrase(text) ==
  \E p \in 1..(Len(text) - 1) :
    /\ text[p] \in {"Agent:", "AGENT:", "agent:"}
    /\ text[p + 1] \in {"None", "NONE", "none"}

\* the selector's answer names no registered unit, in any letter case
NamesNoUnit(text) ==
  \A p \in 1..Len(text) :
    text[p] \notin {"Calc", "CALC", "calc", "Writer", "WRITER", "writer"}

\* the latest selection call of this execute() answered "none"
SelectorSaidNone ==
  /\ llm_calls >= 2
  /\ llm_response.kind = "return"
  /\ AnswersNoAgentPhrase(llm_response.text) \/ NamesNoUnit(llm_response.text)

\* C11: when the selector answers "none" for subtask j ("Agent: None" in any
\* letter case, or no registered unit named), the loop stops without a fault:
\* no unit is invoked for subtask j or a later one, no further selection call
\* is made, and execute() returns the aggregate of the j-1 steps already run.
C11_NoneStopsLoop ==
  SelectorSaidNone
    => LET j == llm_calls - 1
       IN /\ rpc \in {"aggregate", "done"}
          /\ subtask_i = j - 1
          /\ Len(router_results) = j - 1
          /\ Len(retried) = j - 1
          /\ HistoryEntries(Len(AgentNames)) = LoggedAttempts(j - 1)
          /\ rpc = "done"
                => /\ router_out.kind = "return"
                   /\ router_out.text[Len(router_out.text)]
                        = (IF j = 1 THEN "No results to aggregate"
                           ELSE ToString(j - 1))

\* "none" answered for the third subtask, with a unit named after the phrase:
\* execute() returned the two steps run before
C11_Witness ==
  /\ rpc = "done" /\ router_out.kind = "return"
  /\ llm_calls = 4
  /\ llm_response.text = <<"agent:", "NONE", "not", "Calc">>
  /\ Len(subtasks) = 3 /\ Len(router_results) = 2

\* the text with every {step_N_output}, 1 <= N <= m, replaced by the text of
\* r_N and every other word kept
LiteralResolution(text, res) ==
  LET word(p) ==
        IF \E n \in 1..Len(res) : text[p] = PlaceholderToken(n)
          THEN res[CHOOSE n \in 1..Len(res) : text[p] = PlaceholderToken(n)].result
          ELSE <<text[p]>>
      upto[p \in 0..Len(text)] == IF p = 0 THEN <<>> ELSE upto[p - 1] \o word(p)
  IN upto[Len(text)]

\* C12: placeholder resolution replaces every occurrence of {step_N_output}
\* with 1 <= N <= m by the string form of r_N, all occurrences of a token
\* identically, and leaves the rest of the text unchanged.
C12_LiteralReplacement ==
  rpc = "resolved" => router_task = LiteralResolution(subtasks[1], router_results)

\* a placeholder whose number is 0 or beyond the m results recorded
OutOfRange(word, m) ==
  \E d \in Numerals : word = PlaceholderText(d) /\ (IntOf(d) = 0 \/ IntOf(d) > m)

\* the text with its out-of-range placeholders made opaque, and back
Masked(text, m) ==
  [p \in 1..Len(text) |-> IF OutOfRange(text[p], m) THEN "#" \o text[p] ELSE text[p]]

Unmasked(text) ==
  [p \in 1..Len(text) |->
     IF \E d \in Numerals : text[p] = "#" \o PlaceholderText(d)
       THEN PlaceholderText(CHOOSE d \in Numerals : text[p] = "#" \o PlaceholderText(d))
       ELSE text[p]]

\* C13: a placeholder {step_N_output} whose N is 0 or greater than the number
\* of recorded steps is left verbatim, and the resolution of the in-range
\* placeholders of the same text is what it is without it: the resolved text
\* is the resolution of the text with those placeholders opaque, put back.
C13_OutOfRangeVerbatim ==
  rpc = "resolved"
    => LET m == Len(router_results)
       IN router_task = Unmasked(SubstitutePlaceholders(Masked(subtasks[1], m),
                                                        router_results))

\* one result recorded; {step_0_output} and {step_5_output} stay, and
\* {step_1_output} between them is resolved
C13_Witness ==
  /\ rpc = "resolved"
  /\ Len(router_results) = 1
  /\ router_results[1].result = <<"A">>
  /\ subtasks[1] = <<PlaceholderToken(0), PlaceholderToken(1), PlaceholderToken(5)>>
  /\ router_task = <<PlaceholderToken(0), "A", PlaceholderToken(5)>>

\* the words of a line, white space aside
Words(line) == SelectSeq(line, LAMBDA w : w /= Blank)

\* a line of the shape "number. text"
HasNumberTextShape(line) ==
  /\ Len(Words(line)) >= 2
  /\ \E n \in 0..99 : Words(line)[1] = ToString(n) \o "."

\* the text parts of the lines of that shape, in document order
NumberedTexts(lines) ==
  LET kept[p \in 0..Len(lines)] ==
        IF p = 0 THEN <<>>
        ELSE IF HasNumberTextShape(lines[p])
          THEN Append(kept[p - 1], Tail(Words(lines[p])))
          ELSE kept[p - 1]
  IN kept[Len(lines)]

\* C14: decomposition keeps exactly the response lines of the shape
\* "number. text", in document order, returning only their text part, and
\* discards every other line; a response with no such line yields the empty
\* list.
C14_DecompositionParse ==
  rpc = "parsed"
    => /\ subtasks = NumberedTexts(llm_response.text)
       /\ (\A p \in 1..Len(llm_response.text) :
              ~HasNumberTextShape(llm_response.text[p])) => subtasks = <<>>

\* a heading, an indented numbered line and a two-digit one: two subtasks
C14_Witness ==
  /\ rpc = "parsed"
  /\ llm_response.text = << <<"Notes">>, <<Blank, "2.", "Analyze", Blank>>,
                            <<"10.", "ten">> >>
  /\ subtasks = << <<"Analyze">>, <<"ten">> >>

\* the last two invocations of the run were of the same unit and both raised
RaisedTwice ==
  /\ Len(invoked) >= 2
  /\ invoked[Len(invoked)].kind = "raise"
  /\ invoked[Len(invoked) - 1].kind = "raise"
  /\ invoked[Len(invoked)].unit = invoked[Len(invoked) - 1].unit

\* C15: run() never raises: for every outcome of execute() it returns a
\* result whose status is success or failed, failed exactly when execute()
\* raised (a step raised twice in a row, max_steps was exceeded, or no units
\* are configured); a failed result carries error and a boolean rollback, a
\* success result carries result.
C15_RunAlwaysReturns ==
  pc = "returned"
    => /\ retval.status \in {"success", "failed"}
       /\ retval.status = "failed"
            <=> (agents = 0 \/ current_step > max_steps \/ RaisedTwice)
       /\ retval.status = "failed"
            => /\ {"error", "rollback"} \subseteq retval.keys
               /\ retval.rollback \in BOOLEAN
               /\ retval.error /= <<>>
       /\ retval.status = "success" => "result" \in retval.keys

\* the second unit raised twice after the first had returned: run() returned
\* a failed result with the error of the second raise
C15_Witness ==
  /\ pc = "returned"
  /\ retval.status = "failed"
  /\ RaisedTwice
  /\ Len(invoked) = 3
  /\ retval.error = <<"boom", "2">>
  /\ retval.rollback = FALSE

\* a step of the run in progress has just completed without raising
StepJustCompleted ==
  /\ pc = "loop"
  /\ invoked /= <<>>
  /\ invoked[Len(invoked)].kind = "return"

\* C16: after every step that completes without raising, a step that
\* succeeded only on its inline-recovery retry included, a checkpoint is
\* appended whose step index is that step's ordinal and whose result snapshot
\* equals the results recorded so far.
C16_CheckpointAfterEveryStep ==
  StepJustCompleted
    => /\ checkpoints /= <<>>
       /\ checkpoints[Len(checkpoints)].step = invoked[Len(invoked)].unit
       /\ checkpoints[Len(checkpoints)].results = results

\* invocation j is the first one of its step
FirstOfStep(j) == j = 1 \/ invoked[j - 1].unit /= invoked[j].unit

\* what holds of the invocations of a run at every moment
C17_RetriedOnce ==
  /\ \A u \in 1..agents :
        Cardinality({j \in 1..Len(invoked) : invoked[j].unit = u}) <= 2
  /\ \A j \in 1..Len(invoked) :
        (FirstOfStep(j) /\ invoked[j].kind = "raise")
          => IF j < Len(invoked)
               THEN /\ invoked[j + 1].unit = invoked[j].unit
                    /\ invoked[j + 1].input = invoked[j].input
               ELSE pc \in {"recover", "retry"}
  /\ StepJustCompleted
        => LET last == invoked[Len(invoked)]
               rec == results[Len(results)]
           IN /\ rec.agent = last.unit
              /\ rec.input = last.input
              /\ rec.recovered = ~FirstOfStep(Len(invoked))
              /\ i = last.unit
  /\ RaisedTwice
        => /\ pc \notin {"loop", "call", "recover", "retry"}
           /\ pc = "returned" => retval.status = "failed"

\* the recovery between a raise and the retry of the step
C17_Recovery ==
  pc = "recover"
    => /\ pc' = "retry"
       /\ agentState'[i + 1] = "idle"
       /\ agentHist'[i + 1] = SubSeq(agentHist[i + 1], 1, Len(agentHist[i + 1]) - 1)
       /\ agentHist[i + 1] /= <<>>
       /\ current_task' = current_task

\* C17: when a step raises, a single inline recovery is attempted (the unit's
\* state set to idle, its most recent history entry discarded) and the step
\* is retried exactly once with the same input task: within one run each
\* step's unit is invoked at most twice, a step whose retry succeeds is
\* recorded with the recovered flag and the run continues, and a second raise
\* propagates so that the run ends failed.
C17_SingleInlineRecovery == []C17_RetriedOnce /\ [][C17_Recovery]_vars

\* the second step raised, was recovered and returned on its retry: its record
\* carries the recovered flag and the run goes on with the third step
C17_Witness ==
  /\ pc = "call" /\ i = 2
  /\ Len(invoked) = 3
  /\ invoked[2].kind = "raise" /\ invoked[3].kind = "return"
  /\ invoked[2].unit = 2 /\ invoked[3].unit = 2
  /\ results[2].recovered /\ ~results[1].recovered
  /\ agentState[2] = "completed"

\* what holds of the failed-step marker at every moment
C18_MarkerState ==
  /\ pc \in {"recover", "retry"} => failed_step = i /\ failed_step = current_step - 1
  /\ (pc = "returned" /\ RaisedTwice)
        => failed_step = invoked[Len(invoked)].unit - 1
  /\ (pc = "returned" /\ retval.status = "success") => failed_step = NoStep

\* what a raise and a successful retry do to the marker and the checkpoints
C18_MarkerStep ==
  /\ (pc = "call" /\ pc' = "recover")
        => failed_step' = i /\ checkpoints' = checkpoints
  /\ (pc = "retry" /\ pc' = "except")
        => failed_step' = i /\ checkpoints' = checkpoints
  /\ (pc = "retry" /\ pc' = "loop") => failed_step' = NoStep

\* C18: when a step raises, its index is recorded as the failed-step marker
\* and no checkpoint is taken for it; the marker is still set to that step
\* after a run that returns failed because of it, and it is cleared when the
\* inline retry succeeds and when a run completes successfully.
C18_FailedStepMarker == []C18_MarkerState /\ [][C18_MarkerStep]_vars

\* the second step raised twice: the run returned failed, the marker is that
\* step's index and the only checkpoint is the first step's
C18_Witness ==
  /\ pc = "returned" /\ retval.status = "failed"
  /\ RaisedTwice
  /\ invoked[Len(invoked)].unit = 2
  /\ failed_step = 1
  /\ Len(checkpoints) = 1 /\ checkpoints[1].step = 1

\* C19: when the number of configured units exceeds max_steps, the run is
\* aborted: run() returns status failed (never success), no unit at a position
\* greater than max_steps is invoked, and the partial results of the steps
\* that did run are not returned as the run's outcome.
C19_MaxStepsAborts ==
  agents > max_steps
    => /\ retval.status /= "success"
       /\ \A j \in 1..Len(invoked) : invoked[j].unit <= max_steps
       /\ pc = "returned"
            => /\ retval.status = "failed"
               /\ "result" \notin retval.keys
               /\ retval.results = <<>>
               /\ retval.final_output = <<>>

\* more units than max_steps, every unit up to the ceiling returned: the run
\* returned failed at step max_steps + 1 with the ceiling named in the error
C19_Witness ==
  /\ pc = "returned"
  /\ agents > max_steps
  /\ Len(invoked) = max_steps
  /\ \A j \in 1..Len(invoked) : invoked[j].kind = "return"
  /\ current_step = max_steps + 1
  /\ retval.status = "failed"
  /\ retval.error = <<"Exceeded maximum steps:", ToString(max_steps)>>

\* C20: pipeline semantics of a fixed-sequence run: step 1's input is the
\* request, for every i >= 1 the input task of step i+1 is exactly the output
\* recorded for step i (also when step i was inline-recovered, and after a
\* resume), and after each step the context holds that unit's output under
\* its per-unit key.
C20_Pipeline ==
  /\ pc \in {"call", "retry"}
        => IF i = 0 THEN current_task = task
           ELSE \E j \in 1..Len(results) :
                  results[j].step = i /\ results[j].output = current_task
  /\ StepJustCompleted
        => LET key == OutputKey(invoked[Len(invoked)].unit)
           IN /\ key \in DOMAIN context
              /\ context[key] = results[Len(results)].output

\* C21: in a fixed-sequence run a unit result that begins with "Error:" counts
\* as a failed attempt and is retried: it is never recorded as the step's
\* output nor fed forward as the next step's input.
C21_ErrorTextNotFedForward ==
  /\ \A j \in 1..Len(results) : ~StartsWithError(results[j].output)
  /\ pc \in {"call", "retry"} => ~StartsWithError(current_task)
  /\ \A j \in 1..Len(invoked) : ~StartsWithError(invoked[j].input)

\* the router's first execute() call of the step raised
RouterCallRaised == invoked /= <<>> /\ invoked[1].kind = "raise"

\* C22: decomposition and selection calls are never retried: when the
\* text-generation call raises in decompose_task or select_agent, no second
\* decomposition or selection call is made in the same run (also when the
\* router is a unit of a fixed-sequence workflow with inline recovery), no
\* unit is executed again for a completed subtask, and the run ends failed.
C22_LlmCallsNotRetried ==
  /\ (InRouterCall /\ RouterCallRaised) => rpc = "ready" /\ llm_calls = 0
  /\ (pc = "returned" /\ RouterCallRaised) => retval.status = "failed"

\* the spellings under which a unit's name occurs in an answer
NameSpellings(k) ==
  IF k = 1 THEN {"Calc", "CALC", "calc", "calculator"}
  ELSE {"Writer", "WRITER", "writer"}

NameOccurs(text, k) == \E p \in 1..Len(text) : text[p] \in NameSpellings(k)

\* C23: selection result: if the response holds the no-agent phrase in any
\* letter case the result is none, even when a unit's name also occurs;
\* otherwise it is the first unit, in registration order, whose name occurs
\* case-insensitively as a substring; if no name occurs it is none.
C23_SelectionResult ==
  rpc = "selected"
    => LET text == llm_response.text
       IN selected_agent
            = (IF AnswersNoAgentPhrase(text) THEN NoAgent
               ELSE IF NameOccurs(text, 1) THEN 1
               ELSE IF NameOccurs(text, 2) THEN 2
               ELSE NoAgent)

\* the no-agent phrase followed by a unit's name: none
C23_Witness ==
  /\ rpc = "selected"
  /\ llm_response.text = <<"AGENT:", "none", "Calc">>
  /\ selected_agent = NoAgent

\* the recap of the steps recorded so far: a heading, then for every step its
\* index, unit, task and result
Recap(res) ==
  LET upto[j \in 0..Len(res)] ==
        IF j = 0
          THEN <<"You are part of a multi-step workflow. Here is a summary of the previous steps:">>
          ELSE upto[j - 1]
                 \o <<"- Step", ToString(j), "executed by", AgentNames[res[j].agent],
                      "Task:">>
                 \o res[j].task \o <<"Result:">> \o res[j].result
  IN upto[Len(res)]

\* how many steps a summary enumerates
StepsEnumerated(summary) ==
  Cardinality({p \in 1..Len(summary) : summary[p] = "- Step"})

\* C24: context summary in the router loop: when step 1 is executed the
\* context has no "summary" key (a leftover one is removed), and when step
\* k > 1 is executed "summary" is a recap that enumerates exactly the k-1
\* recorded steps in order (index, unit, task, result), replacing the
\* previous summary.
C24_ContextSummary ==
  rpc = "attempt"
    => IF subtask_i = 0
         THEN SummaryKey \notin DOMAIN current_context
         ELSE /\ SummaryKey \in DOMAIN current_context
              /\ Len(router_results) = subtask_i
              /\ current_context[SummaryKey] = Recap(router_results)
              /\ StepsEnumerated(current_context[SummaryKey]) = subtask_i

\* the third step is executed: the summary recaps the two steps recorded
C24_Witness ==
  /\ rpc = "attempt"
  /\ subtask_i = 2
  /\ SummaryKey \in DOMAIN current_context
  /\ StepsEnumerated(current_context[SummaryKey]) = 2
  /\ router_results[1].agent /= router_results[2].agent

\* part occurs in text as a run of consecutive words
OccursIn(part, text) ==
  \E p \in 0..(Len(text) - Len(part)) : SubSeq(text, p + 1, p + Len(part)) = part

\* C25: placeholder resolution substitutes literal result text in a single
\* pass: a {step_M_output} inside a substituted result is not itself
\* resolved, so every substituted result stands in the resolved text as it
\* was recorded, for every M and every order of the placeholders.
C25_SinglePass ==
  rpc = "resolved"
    => \A p \in 1..Len(subtasks[1]) : \A n \in 1..Len(router_results) :
         subtasks[1][p] = PlaceholderToken(n)
           => OccursIn(router_results[n].result, router_task)

\* the decomposition call answered and no subtask was parsed from the answer
EmptyDecomposition ==
  /\ rpc /= "ready"
  /\ subtasks = <<>>
  /\ ~(llm_calls = 1 /\ llm_response.kind = "raise")

\* C26: an empty decomposition is a valid outcome, not a fault: the router
\* makes no selection call, invokes no unit, records zero steps and returns
\* normally.
C26_EmptyDecomposition ==
  EmptyDecomposition
    => /\ llm_calls = 1
       /\ rpc \in {"loop", "done"}
       /\ router_results = <<>> /\ retried = <<>>
       /\ HistoryEntries(Len(AgentNames)) = 0
       /\ rpc = "done"
            => /\ router_out.kind = "return"
               /\ router_out.text = <<"No results to aggregate">>

\* an answer of two lines, none of them numbered: execute() returned
C26_Witness ==
  /\ rpc = "done"
  /\ subtasks = <<>>
  /\ llm_calls = 1
  /\ llm_response.kind = "return" /\ Len(llm_response.text) = 2
  /\ router_out.kind = "return"

\* every attempt of the log was given the same task and the same context
SameInputs(log) ==
  \A k \in 1..Len(log) :
    log[k].task = log[1].task /\ log[k].context = log[1].context

\* what holds of the attempts of every execute_with_retry call
C27_AttemptsAlike ==
  /\ \A j \in 1..Len(retried) :
        /\ SameInputs(retried[j].outcomes)
        /\ \A k \in 1..Len(retried[j].outcomes) :
              retried[j].outcomes[k].task = router_results[j].task
  /\ rpc = "attempt"
        => /\ SameInputs(attempt_log)
           /\ \A k \in 1..Len(attempt_log) :
                 /\ attempt_log[k].task = router_task
                 /\ attempt_log[k].context = current_context

\* from one attempt to the next the executor changes neither task nor context
C27_BetweenAttempts ==
  (rpc = "attempt" /\ rpc' = "attempt")
    => router_task' = router_task /\ current_context' = current_context

\* C27: all attempts of one execute_with_retry call receive the identical
\* task text and the same context; the retry executor itself changes neither
\* between attempts.
C27_RetryInputsUnchanged == []C27_AttemptsAlike /\ [][C27_BetweenAttempts]_vars

\* three attempts at the second subtask, each given the resolved task and the
\* context with the summary of step 1
C27_Witness ==
  /\ Len(retried) >= 2
  /\ Len(retried[2].outcomes) = 3
  /\ SameInputs(retried[2].outcomes)
  /\ SummaryKey \in DOMAIN retried[2].outcomes[3].context
  /\ retried[2].outcomes[3].task = router_results[2].task
  /\ retried[2].outcomes[1].kind = "raise"

\* a run has begun at step 1 with no results restored, and no unit was
\* invoked yet
FreshStart ==
  /\ pc \in {"loop", "call"}
  /\ invoked = <<>>
  /\ start_step = 0
  /\ results = <<>>

\* C28: the context is scoped to one run: a run that starts at step 1 with no
\* prior results restored begins with exactly the caller-supplied context and
\* never with entries taken from a checkpoint of an earlier run, whatever
\* runs came before.
C28_ContextScopedToRun ==
  FreshStart => \E in \in RunInputs : in.task = task /\ context = in.context

\* C29: rolled_back is a terminal state: once the workflow is rolled_back, no
\* operation other than reset() changes its state; in particular a further
\* run() does not move it to running.
C29_RolledBackTerminal ==
  [][wfState = "rolled_back"
       => (wfState' = "rolled_back" \/ (pc' = "ready" /\ wfState' = "idle"))]_vars

\* the last n entries of a list
LastOf(list, n) ==
  SubSeq(list, IF Len(list) > n THEN Len(list) - n + 1 ELSE 1, Len(list))

\* a step that completes on its first invocation appends its checkpoint, and
\* the list then holds the 3 most recently appended ones in append order
C30_AppendKeepsNewest ==
  (pc = "call" /\ pc' = "loop")
    => LET new == [step |-> current_step, results |-> results', context |-> context']
       IN /\ checkpoints' = LastOf(Append(checkpoints, new), 3)
          /\ checkpoints'[Len(checkpoints')] = new

\* C30: FIFO eviction: whenever more than 3 steps have been checkpointed, the
\* list holds exactly the 3 most recently appended checkpoints in append
\* order (the oldest is the one evicted), so the last entry is always the
\* checkpoint of the most recent checkpointed step.
C30_FifoEviction == [](Len(checkpoints) <= 3) /\ [][C30_AppendKeepsNewest]_vars

\* four steps checkpointed in one run: the first was evicted
C30_Witness ==
  /\ pc = "loop"
  /\ Len(results) = 4
  /\ Len(checkpoints) = 3
  /\ checkpoints[1].step = 2 /\ checkpoints[2].step = 3 /\ checkpoints[3].step = 4
  /\ checkpoints[3].results = results


\* C31: when run() has returned a failed result, its rollback flag is true
\* exactly when the workflow state is rolled_back and every configured unit is
\* idle; when the flag is false (resetting a unit raised) the state is failed.
C31_RollbackFlag ==
  (pc = "returned" /\ retval.status = "failed") =>
     /\ retval.rollback <=>
          (wfState = "rolled_back" /\ \A k \in 1..agents : agentState[k] = "idle")
     /\ ~retval.rollback => wfState = "failed"

\* a failed run over configured units whose rollback raised
C31_Witness ==
  /\ pc = "returned"
  /\ retval.status = "failed"
  /\ agents >= 2
  /\ ~retval.rollback
  /\ wfState = "failed"
  /\ \E k \in 1..agents : agentState[k] = "failed"


\* C32: every stored checkpoint's result snapshot has as many entries as the
\* checkpoint's step index, checkpoints written by a resumed run included.
C32_SnapshotLength ==
  \A k \in 1..Len(checkpoints) :
     Len(checkpoints[k].results) = checkpoints[k].step

\* C33: the step indices of the stored checkpoints are strictly increasing
\* from the oldest to the newest.
C33_StepsIncreasing ==
  \A k \in 1..Len(checkpoints) : \A m \in 1..Len(checkpoints) :
     k < m => checkpoints[k].step < checkpoints[m].step


\* what a successful return leaves behind
C34_ClearedOnSuccess ==
  (pc = "returned" /\ retval.status = "success") =>
     (checkpoints = <<>> /\ failed_step = NoStep)

\* the run() that follows a successful one starts at the first unit with the
\* caller's task and context and no restored results
C34_NextRunFromScratch ==
  (pc = "returned" /\ retval.status = "success" /\ pc' = "loop") =>
     /\ start_step' = 0
     /\ i' = 0
     /\ results' = <<>>
     /\ current_task' = task'
     /\ [task |-> task', context |-> context'] \in RunInputs

\* C34: after every run() that returns status success the checkpoint list is
\* empty and the failed-step marker is unset, and the run() that follows
\* starts at step 1 and restores nothing.
C34_SuccessClearsResume ==
  []C34_ClearedOnSuccess /\ [][C34_NextRunFromScratch]_vars

\* a run whose predecessor succeeded, about to invoke its first unit with the
\* caller's context
C34_Witness ==
  /\ runs >= 2
  /\ pc = "call"
  /\ invoked = <<>>
  /\ wfHistory /= <<>>
  /\ wfHistory[Len(wfHistory)].status = "completed"
  /\ i = 0
  /\ results = <<>>
  /\ context = SetKey(EmptyContext, UserKey, <<"u">>)


\* the checkpoints kept by a step are the ones held before it, unchanged,
\* possibly without the oldest and followed by one new checkpoint
C35_Retained ==
  \/ checkpoints' = <<>>
  \/ checkpoints' = checkpoints
  \/ \E drop \in {0, 1} :
        SubSeq(checkpoints', 1, Len(checkpoints') - 1)
           = SubSeq(checkpoints, 1 + drop, Len(checkpoints))

\* C35: a step that appends to the results list or adds or overwrites context
\* keys, in the run that saved a checkpoint or in a run resumed from it,
\* leaves the result list and the context stored in every kept checkpoint as
\* they were, and a checkpoint saved by the step holds the lists as they are
\* right after it.
C35_SnapshotIsolation ==
  [][ /\ (results' /= results \/ context' /= context) => C35_Retained
      /\ (Len(checkpoints') > 0 /\ checkpoints' /= checkpoints
            /\ pc = "call" /\ pc' = "loop") =>
           /\ checkpoints'[Len(checkpoints')].results = results'
           /\ checkpoints'[Len(checkpoints')].context = context' ]_vars

\* a resumed run has completed a step: the live results and context have
\* grown past what the checkpoint it restored from holds
C35_Witness ==
  /\ start_step > 0
  /\ StepJustCompleted
  /\ Len(checkpoints) >= 2
  /\ Len(checkpoints[Len(checkpoints) - 1].results) < Len(results)
  /\ DOMAIN checkpoints[Len(checkpoints) - 1].context /= DOMAIN context
  /\ checkpoints[Len(checkpoints)].results = results


\* the invocations of unit u in the current run
C36_InvocationsOf(u) == {j \in 1..Len(invoked) : invoked[j].unit = u}

\* one invocation: the unit ends completed on a return and failed on a raise,
\* with exactly one more history entry saying so, and no other unit changes
C36_Invocation ==
  (Len(invoked') = Len(invoked) + 1) =>
     LET call == invoked'[Len(invoked')]
         u    == call.unit
         end  == IF call.kind = "return" THEN "completed" ELSE "failed"
     IN /\ agentState'[u] = end
        /\ agentHist'[u] = Append(agentHist[u], end)
        /\ \A k \in 1..agents : k /= u =>
              (agentState'[k] = agentState[k] /\ agentHist'[k] = agentHist[k])

\* the recovery between the two attempts of a step discards the failed
\* attempt's entry
C36_Recovery ==
  (pc = "recover" /\ pc' = "retry") =>
     /\ agentHist[i + 1] /= <<>>
     /\ agentHist[i + 1][Len(agentHist[i + 1])] = "failed"
     /\ agentHist'[i + 1] = SubSeq(agentHist[i + 1], 1, Len(agentHist[i + 1]) - 1)

\* no unit is left running, a unit invoked in this run shows the end of its
\* last invocation (unless recovery has just reset it), and in a first run
\* every invoked unit holds one history entry, a recovered one included
C36_UnitStates ==
  /\ \A u \in 1..agents : agentState[u] \in {"idle", "completed", "failed"}
  /\ \A u \in 1..agents :
        (C36_InvocationsOf(u) /= {} /\ ~(pc = "retry" /\ u = i + 1)) =>
           LET last == invoked[CHOOSE j \in C36_InvocationsOf(u) :
                                  \A m \in C36_InvocationsOf(u) : m <= j]
           IN agentState[u] = IF last.kind = "return" THEN "completed" ELSE "failed"
  /\ (runs = 1 /\ pc /= "recover") =>
        \A u \in 1..agents :
           Len(agentHist[u]) =
              IF C36_InvocationsOf(u) = {} \/ (pc = "retry" /\ u = i + 1) THEN 0 ELSE 1

\* C36: every invocation of a unit leaves it completed on a normal return and
\* failed on a raise, never running, and appends exactly one history entry;
\* after a step that succeeded through inline recovery the unit is completed
\* and its history holds one entry for that step.
C36_UnitStateMachine ==
  []C36_UnitStates /\ [][C36_Invocation /\ C36_Recovery]_vars

\* a first run in which a step has just succeeded on its recovery retry
C36_Witness ==
  /\ runs = 1
  /\ StepJustCompleted
  /\ Len(invoked) >= 2
  /\ invoked[Len(invoked) - 1].kind = "raise"
  /\ invoked[Len(invoked) - 1].unit = invoked[Len(invoked)].unit
  /\ agentState[invoked[Len(invoked)].unit] = "completed"
  /\ agentHist[invoked[Len(invoked)].unit] = <<"completed">>


\* a run is in progress and has not yet recorded its outcome
C37_BeforeRecord == pc \in {"loop", "call", "recover", "retry", "except"}

\* a run has recorded its outcome
C37_AfterRecord == pc \in {"rollback", "returned"}

\* the one step of a run that records its outcome appends one record, whose
\* status is completed on the way to a success and failed on the way to a
\* rollback; every other step of a run leaves the history as it is
C37_OneRecord ==
  IF C37_BeforeRecord /\ C37_AfterRecord'
    THEN /\ Len(wfHistory') = Len(wfHistory) + 1
         /\ SubSeq(wfHistory', 1, Len(wfHistory)) = wfHistory
         /\ wfHistory'[Len(wfHistory')].status =
               IF pc' = "returned" THEN "completed" ELSE "failed"
    ELSE pc' /= "ready" => wfHistory' = wfHistory

\* when run() has returned, the latest record agrees with the returned status
\* and the workflow is neither running nor idle
C37_AtReturn ==
  pc = "returned" =>
     /\ retval.status \in {"success", "failed"}
     /\ wfHistory /= <<>>
     /\ wfHistory[Len(wfHistory)].status =
           IF retval.status = "success" THEN "completed" ELSE "failed"
     /\ wfState \in {"completed", "failed", "rolled_back"}
     /\ wfState = "completed" <=> retval.status = "success"

\* C37: every run() call appends exactly one record to the execution history,
\* with status completed when it returns success and failed when it returns
\* failed, and the workflow state is neither running nor idle when run()
\* returns.
C37_OneHistoryRecordPerRun ==
  []C37_AtReturn /\ [][C37_OneRecord]_vars

\* a failed run followed by a successful one: two records, one each
C37_Witness ==
  /\ pc = "returned"
  /\ runs = 2
  /\ retval.status = "success"
  /\ Len(wfHistory) = 2
  /\ wfHistory[1].status = "failed"
  /\ wfHistory[2].status = "completed"


\* while subtask number subtask_i + 1 is at hand, subtask_i steps are
\* recorded; the task at hand is that subtask with its placeholders resolved;
\* the recorded steps never outnumber the subtasks
C38_StepsSoFar ==
  /\ Len(router_results) <= Len(subtasks)
  /\ rpc \in {"loop", "attempt"} => Len(router_results) = (subtask_i + 1) - 1
  /\ rpc = "attempt" =>
        /\ subtask_i + 1 <= Len(subtasks)
        /\ router_task = SubstitutePlaceholders(subtasks[subtask_i + 1], router_results)

\* a step of the loop stays on the subtask at hand or moves to the very next
\* one, and records one step exactly when it moves on
C38_Advance ==
  rpc \in {"loop", "attempt"} =>
     /\ subtasks' = subtasks
     /\ subtask_i' - subtask_i \in {0, 1}
     /\ Len(router_results') = Len(router_results) + (subtask_i' - subtask_i)
     /\ SubSeq(router_results', 1, Len(router_results)) = router_results

\* C38: the router loop processes the subtasks strictly in decomposition
\* order and records at most one step for each: while subtask i (1-based) is
\* processed exactly i-1 steps are recorded, and the final step count never
\* exceeds the number of subtasks.
C38_SubtasksInOrder ==
  []C38_StepsSoFar /\ [][C38_Advance]_vars

\* the third of three subtasks is at hand after the first ran out of attempts
C38_Witness ==
  /\ rpc = "attempt"
  /\ Len(subtasks) = 3
  /\ subtask_i = 2
  /\ Len(router_results) = 2
  /\ retried[1].exhausted

=============================================================================
